---- MODULE Spec2Model ----
(***************************************************************************)
(* Model of the workbench status bar (StatusbarViewModel, StatusbarPart,   *)
(* the context-menu actions) of src/unnamed/part_000.                      *)
(*                                                                         *)
(* A container (HTMLElement) is identified by a natural number, the order  *)
(* in which doCreateStatusItem created it.  A JavaScript Set is modelled   *)
(* as a duplicate-free sequence in insertion order, which is also the      *)
(* order values(set) and forEach enumerate.                                *)
(***************************************************************************)
EXTENDS Integers, Sequences, FiniteSets, TLC

\* ------------------------------------------------------------------ bounds
MaxEntries == 1          \* addEntry calls in one run of Spec
MaxOrderEntries == 2     \* addEntry calls in one run of SpecOrder
MaxPendingEntries == 2   \* addEntry calls in one run of SpecPending
MaxMenuEntries == 1      \* addEntry calls in one run of SpecMenu
MaxShortLen == 1         \* characters of the messages that are enumerated in full
MaxRelated == 3          \* related-information entries of a marker
MaxClicks == 3           \* clicks on a status entry in one run of SpecCommand
MaxLine == 2             \* line numbers of positions and marker ranges

\* ------------------------------------------------------------ input domains
LEFT == "LEFT"
RIGHT == "RIGHT"
NotRendered == "none"
RegistryContent == "registry"

HIDDEN_ENTRIES_KEY == "workbench.statusbar.hidden"
OTHER_KEY == "workbench.other"
GLOBAL == "GLOBAL"
WORKSPACE == "WORKSPACE"

\* ------------------------------------------------------- sequence helpers
RECURSIVE SeqFilterOut(_, _)
SeqFilterOut(s, x) ==
    IF s = <<>> THEN <<>>
    ELSE IF Head(s) = x THEN SeqFilterOut(Tail(s), x)
         ELSE <<Head(s)>> \o SeqFilterOut(Tail(s), x)

Range(s) == { s[i] : i \in DOMAIN s }
Front(s) == SubSeq(s, 1, Len(s) - 1)
Last(s) == s[Len(s)]
Reverse(s) == [ i \in 1..Len(s) |-> s[Len(s) + 1 - i] ]
IndexOf(s, x) == IF x \in Range(s) THEN CHOOSE i \in DOMAIN s : s[i] = x /\ \A j \in 1..(i-1) : s[j] # x ELSE 0

\* new Set(array): the members in order of first occurrence
RECURSIVE NewSet(_)
NewSet(s) ==
    IF s = <<>> THEN <<>>
    ELSE LET f == NewSet(Front(s))
         IN IF Last(s) \in Range(f) THEN f ELSE Append(f, Last(s))

\* ------------------------------------------------------------ the storage
\* A stored value: no value under the key, a string JSON.parse rejects (or parses
\* to something new Set() rejects), or the JSON text of a list of strings.
Absent == [kind |-> "absent", list |-> <<>>]
Malformed == [kind |-> "malformed", list |-> <<>>]
JsonList(s) == [kind |-> "json", list |-> s]

Store(value) == [call |-> "store", value |-> value]
Remove == [call |-> "remove", value |-> Absent]

VARIABLES
    element,         \* StatusbarPart.element is set (createContentArea ran)
    registry,        \* Registry.as(Extensions.Statusbar).items
    pendingEntries,  \* StatusbarPart.pendingEntries
    accessor,        \* per container, the accessor handed out for it: "pending" (the one of
                     \* doAddPendingEntry, pendingEntry.accessor unset), "forwarding" (the same,
                     \* pendingEntry.accessor set), "realized" (the one of doAddEntry), "none"
    content,         \* per container: the IStatusbarEntry its item rendered
    entries,         \* StatusbarViewModel._entries
    hidden,          \* StatusbarViewModel.hidden
    display,         \* per container: TRUE unless hide(container) set display none
    classes,         \* per container: subset of {first-visible-item, last-visible-item}
    children,        \* child nodes of StatusbarPart.element, in document order
    storage,         \* value under HIDDEN_ENTRIES_KEY in the global storage
    notify,          \* another party wrote the key and its change event is not delivered yet
    last,            \* the operation that ran last and the calls it made
    added,           \* history: containers in the order of the viewModel.add calls
    wanted,          \* history: per accessor, the entry of addEntry or of the latest update
    disposed,        \* history: accessors whose dispose was called
    disposedEarly,   \* history: accessors whose dispose was called before createContentArea
    menu             \* the actions of the context menu that is showing, <<>> when none is

VARIABLES
    messageBlock,       \* MessageWidget._messageBlock: the line elements' texts
    relatedBlock,       \* MessageWidget._relatedBlock: number of related-information rows
    lines,              \* MessageWidget._lines
    longestLineLength,  \* MessageWidget._longestLineLength
    severity,           \* MarkerNavigationWidget._severity
    frameColor,         \* the frame colour id passed to style() by _applyTheme
    stale,              \* _container.classList contains 'stale'
    zone,               \* the view zone of the shown widget: <<heightInLines>>, <<>> before show
    position,           \* the position the widget was last shown at, <<>> before show
    revealed,           \* the position last passed to revealPositionInCenter, <<>> if none
    marker,             \* history: the marker last passed to MessageWidget.update, <<>> if none
    wlast               \* history: the widget operation that ran last, whether it threw,
                        \* and the height it computed

partVars == <<element, registry, pendingEntries, accessor, content, entries, hidden,
              display, classes, children, storage, notify, last,
              added, wanted, disposed, disposedEarly>>

\* what no operation of the status bar part touches unless it says so
VARIABLES
    listener,       \* StatusbarEntryItem: the click listener of render() is attached
    itemCommand,    \* the entry of the latest render() has a command
    itemDisposed,   \* dispose() ran after the latest render()
    runs,           \* the executeCommand calls, one per click: "awaiting" the command,
                    \* "completed", or "raised" when an error left the call
    events          \* history: <<run, what>> for the focus, telemetry, command and
                    \* notification calls, in the order they were made

itemVars == <<listener, itemCommand, itemDisposed, runs, events>>
widgetVars == <<messageBlock, relatedBlock, lines, longestLineLength, severity, frameColor,
                stale, zone, position, revealed, marker, wlast>>
beyondPart == <<menu, widgetVars, itemVars>>

vars == <<partVars, beyondPart>>

\* --------------------------------------------------- StatusbarViewModel
\* The view-model's fields together with the storage it talks to and the calls
\* it has made in the running operation.
ViewModel == [entries |-> entries, hidden |-> hidden, display |-> display,
              classes |-> classes, storage |-> storage, added |-> added,
              domCalls |-> {}, storageCalls |-> <<>>, threw |-> FALSE]

\* this.hidden before the constructor's restoreState assigned it
Undefined == << "undefined" >>

FIRST == "first-visible-item"
LAST == "last-visible-item"

isHidden(vm, id) == id \in Range(vm.hidden)

\* restoreState without the try/catch around JSON.parse
restoreState_NoCatch(vm) ==
    LET raw == vm.storage
    IN IF raw.kind = "malformed" THEN [vm EXCEPT !.threw = TRUE]
       ELSE LET assigned == IF raw.kind = "json" THEN NewSet(raw.list) ELSE vm.hidden
            IN [vm EXCEPT !.hidden = IF assigned = Undefined THEN <<>> ELSE assigned]

\* JSON.parse(hiddenRaw) and new Set(hiddenArray) inside the try block: the
\* members of the list, or nothing when either throws (vm.threw stays as it is).
restoreState(vm) ==
    LET raw == vm.storage
        assigned == IF raw.kind = "json" THEN NewSet(raw.list) ELSE vm.hidden
    IN [vm EXCEPT !.hidden = IF assigned = Undefined THEN <<>> ELSE assigned]

getEntriesOf(es, alignment) == SelectSeq(es, LAMBDA e : e.alignment = alignment)
getEntries(vm, alignment) == getEntriesOf(vm.entries, alignment)

findEntry(vm, container) ==
    LET hits == { i \in DOMAIN vm.entries : vm.entries[i].container = container }
    IN IF hits = {} THEN <<>>
       ELSE << vm.entries[CHOOSE i \in hits : \A j \in hits : i <= j] >>

VisibleIndices(vm, es) == { i \in DOMAIN es : ~isHidden(vm, es[i].id) }

doMarkFirstLastVisibleStatusbarItem(vm, es) ==
    LET vis == VisibleIndices(vm, es)
        firstVisibleItem == IF vis = {} THEN 0 ELSE es[CHOOSE i \in vis : \A j \in vis : i <= j].container
        lastVisibleItem == IF vis = {} THEN 0 ELSE es[CHOOSE i \in vis : \A j \in vis : i >= j].container
        listed == { es[i].container : i \in DOMAIN es }
    IN [vm EXCEPT !.classes =
          [c \in DOMAIN vm.classes |->
              IF c \in listed
              THEN (IF c = firstVisibleItem THEN {FIRST} ELSE {})
                   \cup (IF c = lastVisibleItem THEN {LAST} ELSE {})
              ELSE vm.classes[c]]]

markFirstLastVisibleEntry(vm) ==
    doMarkFirstLastVisibleStatusbarItem(
        doMarkFirstLastVisibleStatusbarItem(vm, getEntries(vm, LEFT)),
        getEntries(vm, RIGHT))

\* updateVisibility(entry: IStatusbarViewModelEntry)
updateVisibilityEntry(vm, entry) ==
    LET isHid == isHidden(vm, entry.id)
    IN markFirstLastVisibleEntry(
          [vm EXCEPT !.display[entry.container] = ~isHid,
                     !.domCalls = @ \cup { <<entry.container, IF isHid THEN "hide" ELSE "show">> }])

\* updateVisibility(id: string): the loop over this._entries from index i on
RECURSIVE updateVisibilityFrom(_, _, _)
updateVisibilityFrom(vm, id, i) ==
    IF i > Len(vm.entries) THEN vm
    ELSE IF vm.entries[i].id # id THEN updateVisibilityFrom(vm, id, i + 1)
         ELSE updateVisibilityFrom(updateVisibilityEntry(vm, vm.entries[i]), id, i + 1)

\* updateVisibility(id) that returns after the first entry with the id
updateVisibilityId_FirstOnly(vm, id) ==
    LET hits == { i \in DOMAIN vm.entries : vm.entries[i].id = id }
    IN IF hits = {} THEN vm
       ELSE updateVisibilityEntry(vm, vm.entries[CHOOSE i \in hits : \A j \in hits : i <= j])

updateVisibilityId(vm, id) == updateVisibilityFrom(vm, id, 1)

\* saveState without the size test
saveState_AlwaysStore(vm) ==
    [vm EXCEPT !.storage = JsonList(vm.hidden),
               !.storageCalls = Append(@, Store(JsonList(vm.hidden)))]

saveState(vm) ==
    IF Len(vm.hidden) > 0
    THEN [vm EXCEPT !.storage = JsonList(vm.hidden),
                    !.storageCalls = Append(@, Store(JsonList(vm.hidden)))]
    ELSE [vm EXCEPT !.storage = Absent,
                    !.storageCalls = Append(@, Remove)]

\* the comparator with the priorities subtracted the other way round
compare_Ascending(entryA, entryB) ==
    IF entryA.alignment = entryB.alignment THEN entryA.priority - entryB.priority
    ELSE IF entryA.alignment = LEFT THEN -1
    ELSE IF entryB.alignment = LEFT THEN 1
    ELSE 0

\* the comparator handed to Array.prototype.sort
compare(entryA, entryB) ==
    IF entryA.alignment = entryB.alignment THEN entryB.priority - entryA.priority
    ELSE IF entryA.alignment = LEFT THEN -1
    ELSE IF entryB.alignment = LEFT THEN 1
    ELSE 0

\* Array.prototype.sort is a stable sort: an element moves in front of exactly
\* the elements the comparator orders after it.
RECURSIVE InsertSorted(_, _)
InsertSorted(s, x) ==
    IF s = <<>> THEN <<x>>
    ELSE IF compare(Last(s), x) > 0 THEN Append(InsertSorted(Front(s), x), Last(s))
         ELSE Append(s, x)

RECURSIVE StableSort(_)
StableSort(s) == IF s = <<>> THEN <<>> ELSE InsertSorted(StableSort(Front(s)), Last(s))

sort(vm) == [vm EXCEPT !.entries = StableSort(vm.entries)]

\* add without the direct visibility update
add_NoVisibilityUpdate(vm, entry) ==
    markFirstLastVisibleEntry(
        sort([vm EXCEPT !.entries = Append(@, entry), !.added = Append(@, entry.container)]))

add(vm, entry) ==
    markFirstLastVisibleEntry(
        sort(updateVisibilityEntry(
                [vm EXCEPT !.entries = Append(@, entry), !.added = Append(@, entry.container)],
                entry)))

\* remove that also forgets that the id of the entry was hidden
remove_ForgetHidden(vm, entry) ==
    LET index == IndexOf(vm.entries, entry)
    IN IF index >= 1
       THEN saveState(markFirstLastVisibleEntry(
                [vm EXCEPT !.entries = SubSeq(@, 1, index - 1) \o SubSeq(@, index + 1, Len(@)),
                           !.hidden = SeqFilterOut(@, entry.id)]))
       ELSE vm

\* remove that looks the entry up by its id instead of by identity
remove_SameId(vm, entry) ==
    markFirstLastVisibleEntry(
        [vm EXCEPT !.entries = SelectSeq(@, LAMBDA e : e.id # entry.id)])

\* remove without the trailing markFirstLastVisibleEntry
remove_NoMark(vm, entry) ==
    LET index == IndexOf(vm.entries, entry)
    IN IF index >= 1
       THEN [vm EXCEPT !.entries = SubSeq(@, 1, index - 1) \o SubSeq(@, index + 1, Len(@))]
       ELSE vm

remove(vm, entry) ==
    LET index == IndexOf(vm.entries, entry)
    IN IF index >= 1
       THEN markFirstLastVisibleEntry(
                [vm EXCEPT !.entries = SubSeq(@, 1, index - 1) \o SubSeq(@, index + 1, Len(@))])
       ELSE vm

\* hide that does not persist the hidden set
hide_NoSave(vm, id) ==
    IF ~isHidden(vm, id)
    THEN updateVisibilityId([vm EXCEPT !.hidden = Append(@, id)], id)
    ELSE vm

hide(vm, id) ==
    IF ~isHidden(vm, id)
    THEN saveState(updateVisibilityId([vm EXCEPT !.hidden = Append(@, id)], id))
    ELSE vm

\* show without the membership guard
show_Unguarded(vm, id) ==
    saveState(updateVisibilityId([vm EXCEPT !.hidden = SeqFilterOut(@, id)], id))

\* show without saveState
show_NoSave(vm, id) ==
    IF isHidden(vm, id)
    THEN updateVisibilityId([vm EXCEPT !.hidden = SeqFilterOut(@, id)], id)
    ELSE vm

show(vm, id) ==
    IF isHidden(vm, id)
    THEN saveState(updateVisibilityId([vm EXCEPT !.hidden = SeqFilterOut(@, id)], id))
    ELSE vm

\* the ids of the two forEach loops that fill `changed`
ChangedIds(currentlyHidden, nowHidden) ==
    { id \in Range(currentlyHidden) : id \notin Range(nowHidden) }
      \cup { id \in Range(nowHidden) : id \notin Range(currentlyHidden) }

\* this._entries.forEach(entry => ...) from index i on, with the ids still in `changed`
RECURSIVE updateChangedFrom(_, _, _)
updateChangedFrom(vm, changed, i) ==
    IF i > Len(vm.entries) THEN vm
    ELSE IF vm.entries[i].id \in changed
         THEN updateChangedFrom(updateVisibilityId(vm, vm.entries[i].id),
                                changed \ {vm.entries[i].id}, i + 1)
         ELSE updateChangedFrom(vm, changed, i + 1)

\* onDidStorageChange that updates every entry instead of the changed ones
RECURSIVE updateAllFrom(_, _)
updateAllFrom(vm, i) ==
    IF i > Len(vm.entries) THEN vm
    ELSE updateAllFrom(updateVisibilityEntry(vm, vm.entries[i]), i + 1)

\* onDidStorageChange that reloads for the hidden-entries key of any scope
onDidStorageChange_AnyScope(vm, key, scope) ==
    IF key = HIDDEN_ENTRIES_KEY
    THEN LET currentlyHidden == vm.hidden
             reloaded == restoreState([vm EXCEPT !.hidden = <<>>])
             changed == ChangedIds(currentlyHidden, reloaded.hidden)
         IN IF Cardinality(changed) > 0 THEN updateChangedFrom(reloaded, changed, 1)
            ELSE reloaded
    ELSE vm

onDidStorageChange_UpdateAll(vm, key, scope) ==
    IF key = HIDDEN_ENTRIES_KEY /\ scope = GLOBAL
    THEN updateAllFrom(restoreState([vm EXCEPT !.hidden = <<>>]), 1)
    ELSE vm

\* onDidStorageChange without this.hidden.clear()
onDidStorageChange_NoClear(vm, key, scope) ==
    IF key = HIDDEN_ENTRIES_KEY /\ scope = GLOBAL
    THEN LET currentlyHidden == vm.hidden
             reloaded == restoreState(vm)
             changed == ChangedIds(currentlyHidden, reloaded.hidden)
         IN IF Cardinality(changed) > 0 THEN updateChangedFrom(reloaded, changed, 1)
            ELSE reloaded
    ELSE vm

onDidStorageChange(vm, key, scope) ==
    IF key = HIDDEN_ENTRIES_KEY /\ scope = GLOBAL
    THEN LET currentlyHidden == vm.hidden
             reloaded == restoreState([vm EXCEPT !.hidden = <<>>])
             changed == ChangedIds(currentlyHidden, reloaded.hidden)
         IN IF Cardinality(changed) > 0 THEN updateChangedFrom(reloaded, changed, 1)
            ELSE reloaded
    ELSE vm

\* ------------------------------------------------------------ StatusbarPart
\* The part's fields: the view-model, the child nodes of the status bar element
\* and, per container, the accessor handed out and the entry its item rendered.
Part == [vm |-> ViewModel, children |-> children, accessor |-> accessor,
         content |-> content, pendingEntries |-> pendingEntries]

\* document.createElement('div'): a node that is displayed and carries no mark
doCreateStatusItem(p, kind) ==
    [p EXCEPT !.accessor = Append(@, kind),
              !.content = Append(@, NotRendered),
              !.vm.display = Append(@, TRUE),
              !.vm.classes = Append(@, {})]

\* parent.insertBefore(node, ref) with ref a child of parent
insertBefore(nodes, node, ref) ==
    LET rest == SeqFilterOut(nodes, node)
        at == IndexOf(rest, ref)
    IN IF at = 0 THEN nodes   \* NotFoundError, nothing is inserted
       ELSE SubSeq(rest, 1, at - 1) \o <<node>> \o SubSeq(rest, at, Len(rest))

appendChild(nodes, node) == Append(SeqFilterOut(nodes, node), node)

\* the entries appendOneStatusbarEntry scans, in scan order
ScanOrder(vm, alignment) ==
    IF alignment = RIGHT THEN Reverse(getEntries(vm, alignment)) ELSE getEntries(vm, alignment)

\* appendOneStatusbarEntry taking only the fallback branch
appendOneStatusbarEntry_AlwaysAppend(p, itemContainer, alignment, priority) ==
    [p EXCEPT !.children = appendChild(@, itemContainer)]

appendOneStatusbarEntry(p, itemContainer, alignment, priority) ==
    LET scanned == ScanOrder(p.vm, alignment)
        found == { i \in DOMAIN scanned :
                     \/ alignment = LEFT /\ scanned[i].priority < priority
                     \/ alignment = RIGHT /\ scanned[i].priority > priority }
    IN IF found # {}
       THEN [p EXCEPT !.children =
                insertBefore(@, itemContainer,
                             scanned[CHOOSE i \in found : \A j \in found : i <= j].container)]
       ELSE [p EXCEPT !.children = appendChild(@, itemContainer)]

RECURSIVE appendAllFrom(_, _)
appendAllFrom(nodes, es) ==
    IF es = <<>> THEN nodes ELSE appendAllFrom(appendChild(nodes, Head(es).container), Tail(es))

appendAllStatusbarEntries(p) ==
    [p EXCEPT !.children =
        appendAllFrom(@, getEntries(p.vm, LEFT) \o Reverse(getEntries(p.vm, RIGHT)))]

\* doAddEntry for the container `handle` created by doCreateStatusItem
doAddEntry(p, handle, entry, id, name, alignment, priority) ==
    LET appended == appendOneStatusbarEntry(
                        [p EXCEPT !.content[handle] = entry, !.accessor[handle] = "realized"],
                        handle, alignment, priority)
        viewModelEntry == [id |-> id, name |-> name, alignment |-> alignment,
                           priority |-> priority, container |-> handle]
    IN [appended EXCEPT !.vm = add(@, viewModelEntry)]

doAddPendingEntry(p, handle, entry, id, name, alignment, priority) ==
    [p EXCEPT !.pendingEntries =
        Append(@, [handle |-> handle, entry |-> entry, id |-> id, name |-> name,
                   alignment |-> alignment, priority |-> priority])]

addEntry(p, hasElement, entry, id, name, alignment, priority) ==
    IF ~hasElement
    THEN doAddPendingEntry(doCreateStatusItem(p, "pending"), Len(p.accessor) + 1,
                           entry, id, name, alignment, priority)
    ELSE doAddEntry(doCreateStatusItem(p, "realized"), Len(p.accessor) + 1,
                    entry, id, name, alignment, priority)

\* the loop over registry.items
RECURSIVE addRegistryItems(_, _)
addRegistryItems(p, items) ==
    IF items = <<>> THEN p
    ELSE LET created == doCreateStatusItem(p, "none")
             itemContainer == Len(created.accessor)
             viewModelEntry == [id |-> Head(items).id, name |-> Head(items).name,
                                alignment |-> Head(items).alignment,
                                priority |-> Head(items).priority,
                                container |-> itemContainer]
         IN addRegistryItems(
                [created EXCEPT !.content[itemContainer] = RegistryContent,
                                !.vm = add(@, viewModelEntry)],
                Tail(items))

\* the loop taking the newest pending entry first
RECURSIVE fillPendingEntries_Pop(_)
fillPendingEntries_Pop(p) ==
    IF Len(p.pendingEntries) = 0 THEN p
    ELSE LET pending == Last(p.pendingEntries)
             realized == doAddEntry([p EXCEPT !.pendingEntries = Front(@)], pending.handle,
                                    pending.entry, pending.id, pending.name,
                                    pending.alignment, pending.priority)
         IN fillPendingEntries_Pop([realized EXCEPT !.accessor[pending.handle] = "forwarding"])

\* the loop without the assignment to pending.accessor
RECURSIVE fillPendingEntries_NoAccessor(_)
fillPendingEntries_NoAccessor(p) ==
    IF Len(p.pendingEntries) = 0 THEN p
    ELSE LET pending == Head(p.pendingEntries)
             realized == doAddEntry([p EXCEPT !.pendingEntries = Tail(@)], pending.handle,
                                    pending.entry, pending.id, pending.name,
                                    pending.alignment, pending.priority)
         IN fillPendingEntries_NoAccessor([realized EXCEPT !.accessor[pending.handle] = "pending"])

\* while (this.pendingEntries.length) { pending = shift(); pending.accessor = addEntry(...) }
RECURSIVE fillPendingEntries(_)
fillPendingEntries(p) ==
    IF Len(p.pendingEntries) = 0 THEN p
    ELSE LET pending == Head(p.pendingEntries)
             realized == doAddEntry([p EXCEPT !.pendingEntries = Tail(@)], pending.handle,
                                    pending.entry, pending.id, pending.name,
                                    pending.alignment, pending.priority)
         IN fillPendingEntries([realized EXCEPT !.accessor[pending.handle] = "forwarding"])

createInitialStatusbarEntries(p, items) ==
    fillPendingEntries(appendAllStatusbarEntries(addRegistryItems(p, items)))

\* update of the accessor addEntry returned for `handle`
accessorUpdate(p, handle, entry) ==
    IF p.accessor[handle] \in {"realized", "forwarding"}
    THEN [p EXCEPT !.content[handle] = entry]
    ELSE [p EXCEPT !.pendingEntries =
             [i \in DOMAIN @ |-> IF @[i].handle = handle THEN [@[i] EXCEPT !.entry = entry]
                                 ELSE @[i]]]

\* dispose that leaves a pending entry in the queue
accessorDispose_KeepPending(p, handle) ==
    IF p.accessor[handle] \in {"realized", "forwarding"}
    THEN LET found == findEntry(p.vm, handle)
         IN [p EXCEPT !.vm = IF found = <<>> THEN @ ELSE remove(@, found[1]),
                      !.children = SeqFilterOut(@, handle)]
    ELSE p

\* dispose of the accessor addEntry returned for `handle`
accessorDispose(p, handle) ==
    IF p.accessor[handle] \in {"realized", "forwarding"}
    THEN LET found == findEntry(p.vm, handle)
         IN [p EXCEPT !.vm = IF found = <<>> THEN @ ELSE remove(@, found[1]),
                      !.children = SeqFilterOut(@, handle)]
    ELSE [p EXCEPT !.pendingEntries = SelectSeq(@, LAMBDA e : e.handle # handle)]

updateEntryVisibility(vm, id, visible) == IF visible THEN show(vm, id) ELSE hide(vm, id)

\* --------------------------------------------------------- context menu
\* An element a context-menu event can hit: the status bar element, the container
\* of an item, or a node rendered inside a container.
StatusbarElement == [kind |-> "statusbar", of |-> 0]
ItemContainer(handle) == [kind |-> "container", of |-> handle]
InnerNode(handle) == [kind |-> "inner", of |-> handle]
NoElement == [kind |-> "null", of |-> 0]

\* the elements a context-menu event can hit
Targets ==
    {StatusbarElement} \cup { ItemContainer(h) : h \in DOMAIN accessor }
                       \cup { InnerNode(h) : h \in DOMAIN accessor }

parentElement(p, el) ==
    IF el.kind = "inner" THEN ItemContainer(el.of)
    ELSE IF el.kind = "container" /\ el.of \in Range(p.children) THEN StatusbarElement
    ELSE NoElement

\* the loop looking at event.target only, never at its ancestors
statusEntryUnderMouse_TargetOnly(p, el) ==
    IF el.kind = "container" THEN findEntry(p.vm, el.of) ELSE <<>>

\* for (element = event.target; element; element = element.parentElement)
RECURSIVE statusEntryUnderMouse(_, _)
statusEntryUnderMouse(p, el) ==
    IF el = NoElement THEN <<>>
    ELSE LET entry == IF el.kind = "container" THEN findEntry(p.vm, el.of) ELSE <<>>
         IN IF entry # <<>> THEN entry ELSE statusEntryUnderMouse(p, parentElement(p, el))

HideStatusbarEntryAction(id) ==
    [type |-> "hideEntry", id |-> id, label |-> "Hide", checked |-> FALSE]
Separator == [type |-> "separator", id |-> "", label |-> "", checked |-> FALSE]
ToggleStatusbarEntryVisibilityAction(vm, id, label) ==
    [type |-> "toggleEntry", id |-> id, label |-> label, checked |-> ~isHidden(vm, id)]
ToggleStatusbarVisibilityAction ==
    [type |-> "toggleStatusbar", id |-> "ToggleStatusbarVisibilityAction.ID",
     label |-> "Hide Status Bar", checked |-> FALSE]

\* run() that hides whatever the state is
ToggleStatusbarEntryVisibilityAction_run_AlwaysHide(vm, id) == hide(vm, id)

ToggleStatusbarEntryVisibilityAction_run(vm, id) ==
    IF isHidden(vm, id) THEN show(vm, id) ELSE hide(vm, id)

HideStatusbarEntryAction_run(vm, id) == hide(vm, id)

\* this.viewModel.entries.forEach(...) from index i on; nothing is ever added to
\* handledEntries
RECURSIVE toggleActionsFrom(_, _, _)
toggleActionsFrom(vm, handledEntries, i) ==
    IF i > Len(vm.entries) THEN <<>>
    ELSE (IF vm.entries[i].id \notin handledEntries
          THEN << ToggleStatusbarEntryVisibilityAction(vm, vm.entries[i].id, vm.entries[i].name) >>
          ELSE <<>>)
         \o toggleActionsFrom(vm, handledEntries, i + 1)

getContextMenuActions(p, target) ==
    LET underMouse == statusEntryUnderMouse(p, target)
    IN (IF underMouse # <<>>
        THEN << HideStatusbarEntryAction(underMouse[1].id), Separator >>
        ELSE <<>>)
       \o toggleActionsFrom(p.vm, {}, 1)
       \o << Separator, ToggleStatusbarVisibilityAction >>

\* ------------------------------------------------ goto-error widget
CR == "\r"
LF == "\n"
Chars == {"a", CR, LF}

Max(a, b) == IF a >= b THEN a ELSE b
Min(a, b) == IF a <= b THEN a ELSE b

\* message.split(/\r\n|\r|\n/g) from character i on, cur the line being read
RECURSIVE splitFrom(_, _, _)
splitFrom(message, i, cur) ==
    IF i > Len(message) THEN << cur >>
    ELSE IF message[i] = CR /\ i < Len(message) /\ message[i + 1] = LF
         THEN << cur >> \o splitFrom(message, i + 2, <<>>)
    ELSE IF message[i] \in {CR, LF}
         THEN << cur >> \o splitFrom(message, i + 1, <<>>)
    ELSE splitFrom(message, i + 1, Append(cur, message[i]))

split(message) == splitFrom(message, 1, <<>>)

\* the loop for (const line of lines) over ls from index i on
RECURSIVE longestFrom(_, _, _)
longestFrom(ls, i, longest) ==
    IF i > Len(ls) THEN longest ELSE longestFrom(ls, i + 1, Max(Len(ls[i]), longest))

\* the loop for (const related of relatedInformation): one line more per entry
RECURSIVE relatedLinesFrom(_, _, _)
relatedLinesFrom(n, i, count) ==
    IF i > n THEN count ELSE relatedLinesFrom(n, i + 1, count + 1)

MessageWidget == [messageBlock |-> messageBlock, relatedBlock |-> relatedBlock,
                  lines |-> lines, longestLineLength |-> longestLineLength]

\* update that keeps counting from what the previous call left in the caches
MessageWidget_update_Accumulating(w, m) ==
    LET ls == split(m.message)
    IN [messageBlock |-> ls,
        relatedBlock |-> m.relatedInformation,
        lines |-> w.lines + (IF m.relatedInformation > 0
                             THEN relatedLinesFrom(m.relatedInformation, 1, Len(ls) + 1)
                             ELSE Len(ls)),
        longestLineLength |-> longestFrom(ls, 1, w.longestLineLength)]

\* update without the separator line of the related information
MessageWidget_update_NoSeparator(w, m) ==
    LET ls == split(m.message)
    IN [messageBlock |-> ls, relatedBlock |-> m.relatedInformation,
        lines |-> Len(ls) + m.relatedInformation,
        longestLineLength |-> longestFrom(ls, 1, 0)]

\* MessageWidget.update; relatedInformation is the number of entries
MessageWidget_update(w, m) ==
    LET ls == split(m.message)
    IN [messageBlock |-> ls,
        relatedBlock |-> m.relatedInformation,
        lines |-> IF m.relatedInformation > 0
                  THEN relatedLinesFrom(m.relatedInformation, 1, Len(ls) + 1)
                  ELSE Len(ls),
        longestLineLength |-> longestFrom(ls, 1, 0)]

getHeightInLines(w) == Min(17, w.lines)
computeRequiredHeight(w) == 3 + getHeightInLines(w)

Hint == "Hint"
Info == "Info"
Warning == "Warning"
Error == "Error"

\* a theme that knows the warning colour only
applyTheme_WarningOnly(sev) ==
    IF sev = Warning THEN "editorMarkerNavigationWarning"
    ELSE "editorMarkerNavigationError"

\* the colour id _applyTheme picks for the frame and the arrow
applyTheme(sev) ==
    IF sev = Warning THEN "editorMarkerNavigationWarning"
    ELSE IF sev = Info THEN "editorMarkerNavigationInfo"
    ELSE "editorMarkerNavigationError"

SetMessageWidget(w) ==
    /\ messageBlock' = w.messageBlock
    /\ relatedBlock' = w.relatedBlock
    /\ lines' = w.lines
    /\ longestLineLength' = w.longestLineLength

\* new MarkerNavigationWidget(...), whose create() builds the MessageWidget
WidgetInit ==
    /\ messageBlock = <<>>
    /\ relatedBlock = 0
    /\ lines = 0
    /\ longestLineLength = 0
    /\ severity = Warning
    /\ frameColor = applyTheme(Warning)
    /\ stale = FALSE
    /\ zone = <<>>
    /\ position = <<>>
    /\ revealed = <<>>
    /\ marker = <<>>
    /\ wlast = [op |-> "constructor", threw |-> FALSE, height |-> 0]

\* Range.lift(marker)
lift(m) ==
    [startLineNumber |-> m.startLineNumber, startColumn |-> m.startColumn,
     endLineNumber |-> m.endLineNumber, endColumn |-> m.endColumn]

\* range.containsPosition(p), both ends of the range included
containsPosition(range, p) ==
    /\ ~(p.lineNumber < range.startLineNumber \/ p.lineNumber > range.endLineNumber)
    /\ ~(p.lineNumber = range.startLineNumber /\ p.column < range.startColumn)
    /\ ~(p.lineNumber = range.endLineNumber /\ p.column > range.endColumn)

getStartPosition(range) == [lineNumber |-> range.startLineNumber, column |-> range.startColumn]

\* the position chosen without looking at the editor's position
showPosition_RangeStart(range, editorPosition) == getStartPosition(range)

\* editorPosition && range.containsPosition(editorPosition) ? editorPosition
\*                                                          : range.getStartPosition()
\* with editorPosition <<>> for null and <<p>> for the position p
showPosition(range, editorPosition) ==
    IF editorPosition # <<>> /\ containsPosition(range, editorPosition[1])
    THEN editorPosition[1] ELSE getStartPosition(range)

\* showAtMarker(marker, markerIdx, markerCount), editorPosition what
\* this.editor.getPosition() returns
ShowAtMarker(m, editorPosition) ==
    LET w == MessageWidget_update(MessageWidget, m)
    IN /\ stale' = FALSE
       /\ SetMessageWidget(w)
       /\ marker' = << m >>
       /\ severity' = m.severity
       /\ frameColor' = applyTheme(m.severity)
       /\ zone' = << computeRequiredHeight(w) >>
       /\ position' = << showPosition(lift(m), editorPosition) >>
       /\ revealed' = << showPosition(lift(m), editorPosition) >>
       /\ wlast' = [op |-> "showAtMarker", threw |-> FALSE, height |-> computeRequiredHeight(w)]
       /\ UNCHANGED <<partVars, menu, itemVars>>

\* updateMarker that leaves the 'stale' class where it is
UpdateMarker_KeepStale(m) ==
    /\ SetMessageWidget(MessageWidget_update(MessageWidget, m))
    /\ marker' = << m >>
    /\ wlast' = [op |-> "updateMarker", threw |-> FALSE, height |-> 0]
    /\ UNCHANGED <<stale, severity, frameColor, zone, position, revealed, partVars, menu,
                   itemVars>>

\* updateMarker(marker)
UpdateMarker(m) ==
    /\ stale' = FALSE
    /\ SetMessageWidget(MessageWidget_update(MessageWidget, m))
    /\ marker' = << m >>
    /\ wlast' = [op |-> "updateMarker", threw |-> FALSE, height |-> 0]
    /\ UNCHANGED <<severity, frameColor, zone, position, revealed, partVars, menu, itemVars>>

\* showStale: _relayout hands computeRequiredHeight() to the base class, which
\* gives the view zone, when the widget has one, that height
ShowStale ==
    /\ stale' = TRUE
    /\ zone' = IF zone = <<>> THEN zone ELSE << computeRequiredHeight(MessageWidget) >>
    /\ wlast' = [op |-> "showStale", threw |-> FALSE,
                 height |-> computeRequiredHeight(MessageWidget)]
    /\ UNCHANGED <<messageBlock, relatedBlock, lines, longestLineLength, severity, frameColor,
                   position, revealed, marker, partVars, menu, itemVars>>

\* show that passes its arguments on to the base class
MarkerNavigationWidget_show_Delegating(where, heightInLines) ==
    /\ zone' = << heightInLines >>
    /\ position' = << where >>
    /\ wlast' = [op |-> "show", threw |-> FALSE, height |-> 0]
    /\ UNCHANGED <<messageBlock, relatedBlock, lines, longestLineLength, severity, frameColor,
                   stale, revealed, marker, partVars, menu, itemVars>>

\* show(where, heightInLines): throw new Error('call showAtMarker')
MarkerNavigationWidget_show(where, heightInLines) ==
    /\ wlast' = [op |-> "show", threw |-> TRUE, height |-> 0]
    /\ UNCHANGED <<messageBlock, relatedBlock, lines, longestLineLength, severity, frameColor,
                   stale, zone, position, revealed, marker, partVars, menu, itemVars>>

\* ------------------------------------------------------ StatusbarEntryItem
Item == [runs |-> runs, events |-> events]

\* the catch block letting the error go
executeCommand_catch_Rethrow(it, run) ==
    [it EXCEPT !.runs[run] = [state |-> "raised", failed |-> TRUE]]

\* catch (error) { this.notificationService.error(toErrorMessage(error)); }
executeCommand_catch(it, run) ==
    [it EXCEPT !.runs[run] = [state |-> "completed", failed |-> TRUE],
               !.events = Append(@, << run, "notification" >>)]

\* executeCommand logging the telemetry event only after it started the command
executeCommand_TelemetryLast(it, activeTextEditorWidget, outcome) ==
    LET run == Len(it.runs) + 1
        focused == IF activeTextEditorWidget
                   THEN Append(it.events, << run, "focus" >>) ELSE it.events
        started == [runs |-> Append(it.runs, [state |-> "awaiting", failed |-> FALSE]),
                    events |-> Append(focused, << run, "command" >>)]
        settled == IF outcome = "throws" THEN executeCommand_catch(started, run) ELSE started
    IN [settled EXCEPT !.events = Append(@, << run, "telemetry" >>)]

\* executeCommand up to its await: outcome "throws" when commandService.executeCommand
\* throws at once, "promise" when it returns a promise
executeCommand(it, activeTextEditorWidget, outcome) ==
    LET run == Len(it.runs) + 1
        focused == IF activeTextEditorWidget
                   THEN Append(it.events, << run, "focus" >>) ELSE it.events
        logged == Append(focused, << run, "telemetry" >>)
        started == [runs |-> Append(it.runs, [state |-> "awaiting", failed |-> FALSE]),
                    events |-> Append(logged, << run, "command" >>)]
    IN IF outcome = "throws" THEN executeCommand_catch(started, run) ELSE started

\* executeCommand after its await, the promise fulfilled or rejected
executeCommand_resume(it, run, rejected) ==
    IF rejected THEN executeCommand_catch(it, run)
    ELSE [it EXCEPT !.runs[run].state = "completed"]

SetItem(it) ==
    /\ runs' = it.runs
    /\ events' = it.events

\* new StatusbarEntryItem(container, entry) for an entry with a command
ItemInit ==
    /\ listener = TRUE
    /\ itemCommand = TRUE
    /\ itemDisposed = FALSE
    /\ runs = <<>>
    /\ events = <<>>

\* a click on the text container
Click(activeTextEditorWidget, outcome) ==
    /\ listener
    /\ Len(runs) < MaxClicks
    /\ SetItem(executeCommand(Item, activeTextEditorWidget, outcome))
    /\ UNCHANGED <<listener, itemCommand, itemDisposed, partVars, menu, widgetVars>>

\* the promise of a started command is settled
CommandSettles(run, rejected) ==
    /\ run \in DOMAIN runs
    /\ runs[run].state = "awaiting"
    /\ SetItem(executeCommand_resume(Item, run, rejected))
    /\ UNCHANGED <<listener, itemCommand, itemDisposed, partVars, menu, widgetVars>>

\* StatusbarEntryItem.update(entry): the old listener is disposed and render() runs
ItemUpdate(command) ==
    /\ listener' = command
    /\ itemCommand' = command
    /\ itemDisposed' = FALSE
    /\ UNCHANGED <<runs, events, partVars, menu, widgetVars>>

ItemDispose ==
    /\ listener' = FALSE
    /\ itemDisposed' = TRUE
    /\ UNCHANGED <<itemCommand, runs, events, partVars, menu, widgetVars>>

\* ------------------------------------------------------------------ actions
NoSnapshot == <<>>
Snapshot == << [hidden |-> hidden, storage |-> storage, display |-> display] >>

\* `last`: the operation, the id or key it was given, the show/hide calls it made on
\* containers, its calls on the storage and, for a hide and for the show that
\* follows it with the same id, the state the hide started in
Ran(op, id, vm, pre) ==
    [op |-> op, id |-> id, scope |-> "", domCalls |-> vm.domCalls,
     storageCalls |-> vm.storageCalls, pre |-> pre, threw |-> vm.threw]

AddEntryCalls == Cardinality({ h \in DOMAIN accessor : accessor[h] # "none" })
Handles(env) == 1..(env.maxEntries + 2)

SetViewModel(vm) ==
    /\ entries' = vm.entries
    /\ added' = vm.added
    /\ hidden' = vm.hidden
    /\ display' = vm.display
    /\ classes' = vm.classes
    /\ storage' = vm.storage

SetPart(p) ==
    /\ SetViewModel(p.vm)
    /\ children' = p.children
    /\ accessor' = p.accessor
    /\ content' = p.content
    /\ pendingEntries' = p.pendingEntries

\* new StatusbarViewModel(storageService): restoreState on the unassigned field
Constructed(raw) ==
    restoreState([hidden |-> Undefined, storage |-> raw, threw |-> FALSE])

\* the state after new StatusbarPart(...), which constructs the view-model
InitIn(env) ==
    /\ element = FALSE
    /\ registry \in env.registries
    /\ pendingEntries = <<>>
    /\ accessor = <<>>
    /\ content = <<>>
    /\ entries = <<>>
    /\ storage \in env.raws
    /\ hidden = Constructed(storage).hidden
    /\ display = <<>>
    /\ classes = <<>>
    /\ children = <<>>
    /\ notify = FALSE
    /\ last = [op |-> "constructor", id |-> "", scope |-> "", domCalls |-> {},
               storageCalls |-> <<>>, pre |-> NoSnapshot,
               threw |-> Constructed(storage).threw]
    /\ added = <<>>
    /\ wanted = <<>>
    /\ disposed = {}
    /\ disposedEarly = {}
    /\ menu = <<>>
    /\ WidgetInit
    /\ ItemInit

AddEntry(entry, id, name, alignment, priority) ==
    /\ LET p == addEntry(Part, element, entry, id, name, alignment, priority)
       IN /\ SetPart(p)
          /\ last' = Ran("addEntry", "", p.vm, NoSnapshot)
    /\ wanted' = Append(wanted, entry)
    /\ UNCHANGED <<element, registry, notify, disposed, disposedEarly>>
    /\ UNCHANGED beyondPart

CreateContentArea ==
    /\ ~element
    /\ element' = TRUE
    /\ LET p == createInitialStatusbarEntries(Part, registry)
       IN /\ SetPart(p)
          /\ last' = Ran("createContentArea", "", p.vm, NoSnapshot)
          /\ wanted' = wanted \o [i \in 1..Len(registry) |-> RegistryContent]
    /\ UNCHANGED <<registry, notify, disposed, disposedEarly>>
    /\ UNCHANGED beyondPart

AccessorUpdate(handle, entry) ==
    /\ handle \in DOMAIN accessor
    /\ accessor[handle] # "none"
    /\ LET p == accessorUpdate(Part, handle, entry)
       IN /\ SetPart(p)
          /\ last' = Ran("update", "", p.vm, NoSnapshot)
    /\ wanted' = [wanted EXCEPT ![handle] = entry]
    /\ UNCHANGED <<element, registry, notify, disposed, disposedEarly>>
    /\ UNCHANGED beyondPart

AccessorDispose(handle) ==
    /\ handle \in DOMAIN accessor
    /\ accessor[handle] # "none"
    /\ LET p == accessorDispose(Part, handle)
       IN /\ SetPart(p)
          /\ last' = Ran("dispose", "", p.vm, NoSnapshot)
    /\ disposed' = disposed \cup {handle}
    /\ disposedEarly' = IF element THEN disposedEarly ELSE disposedEarly \cup {handle}
    /\ UNCHANGED <<element, registry, notify, wanted>>
    /\ UNCHANGED beyondPart

\* updateEntryVisibility(id, false)
Hide(id) ==
    /\ LET vm == updateEntryVisibility(ViewModel, id, FALSE)
       IN /\ SetViewModel(vm)
          /\ last' = Ran("hide", id, vm, Snapshot)
    /\ UNCHANGED <<element, registry, pendingEntries, accessor, content, children, notify,
                   wanted, disposed, disposedEarly>>
    /\ UNCHANGED beyondPart

\* updateEntryVisibility(id, true)
Show(id) ==
    /\ LET vm == updateEntryVisibility(ViewModel, id, TRUE)
       IN /\ SetViewModel(vm)
          /\ last' = Ran("show", id, vm,
                         IF last.op = "hide" /\ last.id = id THEN last.pre ELSE NoSnapshot)
    /\ UNCHANGED <<element, registry, pendingEntries, accessor, content, children, notify,
                   wanted, disposed, disposedEarly>>
    /\ UNCHANGED beyondPart

\* another window or component writes or removes the key in the global storage
ExternalWrite(raw) ==
    /\ raw # storage
    /\ storage' = raw
    /\ notify' = TRUE
    /\ last' = [op |-> "externalWrite", id |-> "", scope |-> "", domCalls |-> {},
                storageCalls |-> <<>>, pre |-> NoSnapshot, threw |-> FALSE]
    /\ UNCHANGED <<element, registry, pendingEntries, accessor, content, entries, hidden,
                   display, classes, children, added, wanted, disposed, disposedEarly>>
    /\ UNCHANGED beyondPart

\* the storage service fires onDidChangeStorage
StorageChange(key, scope) ==
    /\ LET vm == onDidStorageChange(ViewModel, key, scope)
       IN /\ SetViewModel(vm)
          /\ last' = [Ran("storageChange", key, vm, Snapshot) EXCEPT !.scope = scope]
    /\ notify' = IF key = HIDDEN_ENTRIES_KEY /\ scope = GLOBAL THEN FALSE ELSE notify
    /\ UNCHANGED <<element, registry, pendingEntries, accessor, content, children,
                   wanted, disposed, disposedEarly>>
    /\ UNCHANGED beyondPart

\* contextMenuService.showContextMenu calling getActions
ShowContextMenu(target) ==
    /\ element
    /\ menu' = getContextMenuActions(Part, target)
    /\ last' = Ran("contextMenu", "", ViewModel, NoSnapshot)
    /\ UNCHANGED <<element, registry, pendingEntries, accessor, content, entries, hidden,
                   display, classes, children, storage, notify, added, wanted, disposed,
                   disposedEarly, widgetVars, itemVars>>

\* the user picks the i-th action of the showing menu, which then hides
RunAction(i) ==
    /\ i \in DOMAIN menu
    /\ menu[i].type \in {"toggleEntry", "hideEntry"}
    /\ LET vm == IF menu[i].type = "toggleEntry"
                 THEN ToggleStatusbarEntryVisibilityAction_run(ViewModel, menu[i].id)
                 ELSE HideStatusbarEntryAction_run(ViewModel, menu[i].id)
       IN /\ SetViewModel(vm)
          /\ last' = Ran(menu[i].type, menu[i].id, vm, Snapshot)
    /\ menu' = <<>>
    /\ UNCHANGED <<element, registry, pendingEntries, accessor, content, children, notify,
                   wanted, disposed, disposedEarly, widgetVars, itemVars>>

\* the menu is dismissed without a choice
HideContextMenu ==
    /\ menu # <<>>
    /\ menu' = <<>>
    /\ UNCHANGED <<partVars, widgetVars, itemVars>>

NextIn(env) ==
    \/ \E entry \in env.contents, id \in env.ids, name \in env.names,
          alignment \in env.alignments, priority \in env.priorities :
          /\ AddEntryCalls < env.maxEntries
          /\ AddEntry(entry, id, name, alignment, priority)
    \/ CreateContentArea
    \/ \E handle \in Handles(env), entry \in env.updates : AccessorUpdate(handle, entry)
    \/ \E handle \in Handles(env) : AccessorDispose(handle)
    \/ \E id \in env.ids : Hide(id)
    \/ \E id \in env.ids : Show(id)
    \/ \E raw \in env.raws : ExternalWrite(raw)
    \/ \E key \in env.keys, scope \in env.scopes : StorageChange(key, scope)

RegistryItem(id, alignment, priority) ==
    [id |-> id, name |-> "registered", alignment |-> alignment, priority |-> priority]

\* visibility and persistence: three ids, two registered items, and the values
\* other parties leave in the storage
Env ==
    [ids |-> {"A", "B", "C"}, names |-> {"n1"}, alignments |-> {LEFT}, priorities |-> {0},
     contents |-> {"c1"}, updates |-> {"c1"},
     raws |-> {Absent, Malformed, JsonList(<<"B", "C">>), JsonList(<<"A", "A">>)},
     registries |-> { << RegistryItem("A", LEFT, 0), RegistryItem("B", LEFT, 0) >> }, keys |-> {HIDDEN_ENTRIES_KEY, OTHER_KEY},
     scopes |-> {GLOBAL, WORKSPACE}, maxEntries |-> MaxEntries]

Init == InitIn(Env)
Next == NextIn(Env)
Spec == Init /\ [][Next]_vars

\* ordering: one id, both alignments, three priorities
EnvOrder ==
    [ids |-> {"A"}, names |-> {"n1"}, alignments |-> {LEFT, RIGHT}, priorities |-> {0, 1, 2},
     contents |-> {"c1"}, updates |-> {"c1"},
     raws |-> {Absent, JsonList(<<"A">>)},
     registries |-> { <<>>, << RegistryItem("A", LEFT, 1), RegistryItem("A", LEFT, 1),
                              RegistryItem("A", RIGHT, 1) >> },
     keys |-> {HIDDEN_ENTRIES_KEY}, scopes |-> {GLOBAL}, maxEntries |-> MaxOrderEntries]

InitOrder == InitIn(EnvOrder)
NextOrder == NextIn(EnvOrder)
SpecOrder == InitOrder /\ [][NextOrder]_vars

\* pending entries: entries queued before createContentArea, updated and disposed
\* through their accessors; "c2" is rendered only through an update
EnvPending ==
    [ids |-> {"A"}, names |-> {"n1"}, alignments |-> {LEFT, RIGHT}, priorities |-> {0},
     contents |-> {"c1"}, updates |-> {"c1", "c2"},
     raws |-> {Absent, JsonList(<<"A">>)},
     registries |-> { <<>>, << RegistryItem("A", LEFT, 1) >> },
     keys |-> {HIDDEN_ENTRIES_KEY}, scopes |-> {GLOBAL}, maxEntries |-> MaxPendingEntries]

InitPending == InitIn(EnvPending)
NextPending == NextIn(EnvPending)
SpecPending == InitPending /\ [][NextPending]_vars

\* the context menu: it is opened on any element, stays open while entries and
\* the storage change, and one of its hide or toggle actions is run
EnvMenu ==
    [ids |-> {"A", "B"}, names |-> {"n1"}, alignments |-> {LEFT}, priorities |-> {0},
     contents |-> {"c1"}, updates |-> {"c1"},
     raws |-> {Absent, JsonList(<<"A">>)},
     registries |-> { << RegistryItem("A", LEFT, 0) >> },
     keys |-> {HIDDEN_ENTRIES_KEY}, scopes |-> {GLOBAL}, maxEntries |-> MaxMenuEntries]

InitMenu == InitIn(EnvMenu)
NextMenu ==
    \/ NextIn(EnvMenu)
    \/ \E target \in Targets : ShowContextMenu(target)
    \/ \E i \in DOMAIN menu : RunAction(i)
    \/ HideContextMenu
SpecMenu == InitMenu /\ [][NextMenu]_vars

\* the markers the widget is given
\* n lines "a" joined by sep
RECURSIVE Lined(_, _)
Lined(n, sep) == IF n = 1 THEN << "a" >> ELSE << "a" >> \o sep \o Lined(n - 1, sep)

ShortMessages == UNION { [1..n -> Chars] : n \in 0..MaxShortLen }
MixedMessages == { << CR, LF >>, << LF, CR >> }
LongMessages == { Lined(n, << LF >>) : n \in {14, 17, 20} } \cup { Lined(16, << CR, LF >>) }
Messages == ShortMessages \cup MixedMessages \cup LongMessages
Severities == {Info, Warning, Error}
Columns == {1, 2}
Positions == [lineNumber : 1..MaxLine, column : Columns]
Ranges ==
    { r \in [startLineNumber : 1..MaxLine, startColumn : Columns,
             endLineNumber : 1..MaxLine, endColumn : Columns] :
        \/ r.startLineNumber < r.endLineNumber
        \/ r.startLineNumber = r.endLineNumber /\ r.startColumn <= r.endColumn }
MarkersOver(messages, related, severities, ranges) ==
    { [message |-> message, relatedInformation |-> n, severity |-> sev,
       startLineNumber |-> r.startLineNumber, startColumn |-> r.startColumn,
       endLineNumber |-> r.endLineNumber, endColumn |-> r.endColumn] :
        message \in messages, n \in related, sev \in severities, r \in ranges }
\* every message, on one range
Markers ==
    MarkersOver(Messages, {0, 1, MaxRelated}, Severities,
                { r \in Ranges : r.startLineNumber = 1 /\ r.startColumn = 1
                                 /\ r.endLineNumber = 1 /\ r.endColumn = 1 })
Heights == {0, 4}

InitMarker == InitIn([Env EXCEPT !.raws = {Absent}])
NextMarker ==
    \/ \E m \in Markers : ShowAtMarker(m, <<>>)
    \/ \E m \in Markers : UpdateMarker(m)
    \/ ShowStale
    \/ \E where \in Positions, heightInLines \in Heights :
          MarkerNavigationWidget_show(where, heightInLines)
SpecMarker == InitMarker /\ [][NextMarker]_vars

\* every range and every editor position
PlacedMarkers == MarkersOver({ << "a" >> }, {0}, {Error, Hint}, Ranges)
EditorPositions == { <<>> } \cup { << p >> : p \in Positions }

InitPosition == InitIn([Env EXCEPT !.raws = {Absent}])
NextPosition ==
    \/ \E m \in PlacedMarkers, editorPosition \in EditorPositions :
          ShowAtMarker(m, editorPosition)
    \/ \E m \in PlacedMarkers : UpdateMarker(m)
    \/ ShowStale
    \/ \E where \in Positions, heightInLines \in Heights :
          MarkerNavigationWidget_show(where, heightInLines)
SpecPosition == InitPosition /\ [][NextPosition]_vars

\* markers of every severity, with and without related information
GradedMarkers ==
    MarkersOver({ << "a" >>, << "a", LF, "a" >> }, {0, 1}, {Hint, Info, Warning, Error},
                { [startLineNumber |-> 1, startColumn |-> 1,
                   endLineNumber |-> 1, endColumn |-> 1] })

InitSeverity == InitIn([Env EXCEPT !.raws = {Absent}])
NextSeverity ==
    \/ \E m \in GradedMarkers : ShowAtMarker(m, <<>>)
    \/ \E m \in GradedMarkers : UpdateMarker(m)
    \/ ShowStale
    \/ \E where \in Positions, heightInLines \in Heights :
          MarkerNavigationWidget_show(where, heightInLines)
SpecSeverity == InitSeverity /\ [][NextSeverity]_vars

\* clicks on an entry with a command, with and without an active editor, the
\* command failing at once, failing later or succeeding
InitCommand == InitIn([Env EXCEPT !.raws = {Absent}])
NextCommand ==
    \/ \E activeTextEditorWidget \in BOOLEAN, outcome \in {"throws", "promise"} :
          Click(activeTextEditorWidget, outcome)
    \/ \E run \in 1..MaxClicks, rejected \in BOOLEAN : CommandSettles(run, rejected)
    \/ \E command \in BOOLEAN : ItemUpdate(command)
    \/ ItemDispose
SpecCommand == InitCommand /\ [][NextCommand]_vars

\* ------------------------------------------------------------------ claims
Registered == Range(entries)
HiddenIds == Range(hidden)
\* the set of ids a stored value stands for
Decode(raw) == IF raw.kind = "json" THEN Range(raw.list) ELSE {}
HandledStorageChange ==
    last.op = "storageChange" /\ last.id = HIDDEN_ENTRIES_KEY /\ last.scope = GLOBAL

RegisteredContainers == { e.container : e \in Registered }
QueuedHandles == { pendingEntries[i].handle : i \in DOMAIN pendingEntries }
AddedBefore(c1, c2) == IndexOf(added, c1) < IndexOf(added, c2)

\* C1: the view-model lists exactly the added entries that were not disposed, and
\* within each alignment they are in descending priority, entries of equal
\* priority in the order of their add calls.
C1_EntriesSortedStable ==
    /\ RegisteredContainers = Range(added) \ disposed
    /\ \A alignment \in {LEFT, RIGHT} :
          LET es == getEntriesOf(entries, alignment)
          IN \A i, j \in DOMAIN es :
                i < j => \/ es[i].priority > es[j].priority
                         \/ /\ es[i].priority = es[j].priority
                            /\ AddedBefore(es[i].container, es[j].container)

C1_Witness ==
    /\ last.op = "dispose"
    /\ \E alignment \in {LEFT, RIGHT} :
          LET es == getEntriesOf(entries, alignment)
          IN /\ Len(es) >= 3
             /\ es[1].priority > es[2].priority
             /\ es[2].priority = es[3].priority
             /\ AddedBefore(es[2].container, es[1].container)
    /\ disposed \cap Range(added) # {}

\* C2: every entry registered in the view-model is displayed exactly when its id
\* is not in the hidden set, an entry added under a hidden id included.
C2_VisibilityMatchesHiddenSet ==
    \A e \in Registered : display[e.container] = (e.id \notin HiddenIds)

C2_Witness ==
    /\ last.op = "addEntry"
    /\ element
    /\ \E e \in Registered :
          /\ e.container = Len(accessor)
          /\ e.id \in HiddenIds
          /\ ~display[e.container]

\* C3 as stated: after hide(id) directly followed by show(id), every container is
\* displayed as before the hide and the stored value stands for the same set of
\* ids as before the hide, whatever the hidden set was.
C3_HideShowRestores_Original ==
    (last.op = "show" /\ last.pre # NoSnapshot)
        => /\ display = last.pre[1].display
           /\ Decode(storage) = Decode(last.pre[1].storage)

\* C3 amended: the same, for an id that was not hidden before the hide and a stored
\* value that stood for the in-memory hidden set before the hide.
C3_HideShowRestores ==
    (/\ last.op = "show"
     /\ last.pre # NoSnapshot
     /\ last.id \notin Range(last.pre[1].hidden)
     /\ Decode(last.pre[1].storage) = Range(last.pre[1].hidden))
        => /\ display = last.pre[1].display
           /\ HiddenIds = Range(last.pre[1].hidden)
           /\ Decode(storage) = Decode(last.pre[1].storage)

C3_Witness ==
    /\ last.op = "show"
    /\ last.pre # NoSnapshot
    /\ last.id \notin Range(last.pre[1].hidden)
    /\ Decode(last.pre[1].storage) = Range(last.pre[1].hidden)
    /\ last.pre[1].hidden # <<>>
    /\ \E e \in Registered : e.id = last.id
    /\ \E e \in Registered : e.id \in HiddenIds

\* C4: entries that share an id never differ in visibility; after hide(id) all
\* entries with the id are hidden, after show(id) all of them are displayed.
C4_VisibilityKeyedById ==
    /\ \A e1, e2 \in Registered : e1.id = e2.id => display[e1.container] = display[e2.container]
    /\ last.op = "hide" => \A e \in Registered : e.id = last.id => ~display[e.container]
    /\ last.op = "show" => \A e \in Registered : e.id = last.id => display[e.container]

C4_Witness ==
    /\ last.op = "show"
    /\ last.pre # NoSnapshot
    /\ \E e1, e2 \in Registered :
          /\ e1.container # e2.container
          /\ e1.id = last.id /\ e2.id = last.id
          /\ ~last.pre[1].display[e1.container] \/ <<e1.container, "show">> \in last.domCalls
          /\ display[e1.container] /\ display[e2.container]

\* C5: the view-model never stores the empty list; a hide or show that empties the
\* hidden set removes the key.
C5_EmptySetRemovesKey ==
    /\ \A i \in DOMAIN last.storageCalls :
          last.storageCalls[i].call = "store" => last.storageCalls[i].value.list # <<>>
    /\ (last.op \in {"hide", "show"} /\ last.storageCalls # <<>> /\ hidden = <<>>)
          => (last.storageCalls = << Remove >> /\ storage = Absent)

C5_Witness ==
    /\ last.op = "show"
    /\ hidden = <<>>
    /\ last.storageCalls = << Remove >>
    /\ storage = Absent

\* C6: a storage-change notification for the key calls show on exactly the entries
\* whose id left the hidden set, hide on exactly the entries whose id entered it,
\* and neither on any other entry.
C6_ReconcileOnlyChangedIds ==
    HandledStorageChange =>
        LET before == Range(last.pre[1].hidden)
        IN last.domCalls =
              { <<e.container, "show">> : e \in { r \in Registered : r.id \in before \ HiddenIds } }
                \cup { <<e.container, "hide">> : e \in { r \in Registered : r.id \in HiddenIds \ before } }

C6_Witness ==
    /\ HandledStorageChange
    /\ Range(last.pre[1].hidden) = {"A", "B"}
    /\ Decode(storage) = {"B", "C"}
    /\ \E a, b, c \in Registered :
          /\ a.id = "A" /\ b.id = "B" /\ c.id = "C"
          /\ <<a.container, "show">> \in last.domCalls
          /\ <<c.container, "hide">> \in last.domCalls
          /\ \A call \in last.domCalls : call[1] # b.container

\* C7: after a storage-change notification for the key the hidden set is the set
\* the stored value stands for, and the handler made no call on the storage.
C7_ExternalChangeAuthoritative ==
    HandledStorageChange =>
        /\ HiddenIds = Decode(storage)
        /\ last.storageCalls = <<>>
        /\ storage = last.pre[1].storage

C7_Witness ==
    /\ HandledStorageChange
    /\ storage = Absent
    /\ last.pre[1].hidden # <<>>
    /\ hidden = <<>>
    /\ \E e \in Registered : <<e.container, "show">> \in last.domCalls

\* C12: with a stored value that does not parse, neither the constructor nor the
\* storage-change handler raises; the hidden set is empty afterwards and every
\* registered entry is displayed.
C12_MalformedValueIgnored ==
    (storage = Malformed /\ (last.op = "constructor" \/ HandledStorageChange))
        => /\ ~last.threw
           /\ hidden = <<>>
           /\ \A e \in Registered : display[e.container]

C12_Witness ==
    /\ HandledStorageChange
    /\ storage = Malformed
    /\ last.pre[1].hidden # <<>>
    /\ \E e \in Registered : ~last.pre[1].display[e.container] /\ display[e.container]

\* C8: an entry whose accessor was disposed before createContentArea ran is in
\* no pending queue, view-model or status bar element afterwards, and no item is
\* ever rendered for it.
C8_DisposedPendingNeverAppears ==
    \A h \in disposedEarly :
        /\ h \notin QueuedHandles
        /\ h \notin RegisteredContainers
        /\ h \notin Range(children)
        /\ content[h] = NotRendered

C8_Witness ==
    /\ element
    /\ \E h \in disposedEarly, g \in RegisteredContainers :
          /\ g > h
          /\ accessor[g] = "forwarding"
          /\ g \in Range(children)
          /\ h \notin Range(children)

\* C9: for an accessor handed out while the entry was pending: the queued entry, and
\* after materialization the rendered item, holds the entry of addEntry or of the
\* latest update; a dispose called after materialization leaves the entry in
\* neither the view-model nor the status bar element.
C9_PendingAccessorForwards ==
    \A h \in { g \in DOMAIN accessor : accessor[g] \in {"pending", "forwarding"} } :
        /\ \A i \in DOMAIN pendingEntries :
              pendingEntries[i].handle = h => pendingEntries[i].entry = wanted[h]
        /\ h \in Range(added) => content[h] = wanted[h]
        /\ (h \in Range(added) /\ h \in disposed)
              => (h \notin RegisteredContainers /\ h \notin Range(children))

C9_Witness ==
    /\ last.op = "dispose"
    /\ \E h, g \in DOMAIN accessor :
          /\ accessor[h] = "forwarding" /\ accessor[g] = "forwarding"
          /\ h \in disposed \ disposedEarly
          /\ h \in Range(added)
          /\ h \notin RegisteredContainers
          /\ content[h] = "c2"
          /\ g \in RegisteredContainers
          /\ g \in Range(children)
          /\ content[g] = "c2"

ToggleActionsFor(actions, id) ==
    { i \in DOMAIN actions : actions[i].type = "toggleEntry" /\ actions[i].id = id }

\* C10: wherever the context menu is opened, it holds exactly one toggle-visibility
\* action for each id that has a registered entry.
C10_OneTogglePerId ==
    \A target \in Targets : \A e \in Registered :
        Cardinality(ToggleActionsFor(getContextMenuActions(Part, target), e.id)) = 1

\* the registered entry whose container is h
EntryOf(es, h) == CHOOSE e \in Range(es) : e.container = h

\* the entries of the alignment that a container can be inserted before, in the
\* order the claim scans them, as they were before the addEntry call
Before(es, alignment, priority) ==
    LET old == getEntriesOf(es, alignment)
        scanned == IF alignment = RIGHT THEN Reverse(old) ELSE old
    IN SelectSeq(scanned, LAMBDA x : IF alignment = LEFT THEN x.priority < priority
                                     ELSE x.priority > priority)

\* C15: once the container element exists, addEntry leaves the other containers
\* where they were and puts the new one directly before the first same-alignment
\* entry of strictly lower (LEFT) or strictly higher (RIGHT, reversed order)
\* priority, or at the end when there is none.
C15_InsertedBeforeFirstLowerOrHigher ==
    [][ (element /\ last'.op = "addEntry")
          => LET h == Len(accessor')
                 e == EntryOf(entries', h)
                 refs == Before(entries, e.alignment, e.priority)
                 at == IndexOf(children', h)
             IN /\ at > 0
                /\ SeqFilterOut(children', h) = children
                /\ IF refs = <<>> THEN at = Len(children')
                   ELSE at < Len(children') /\ children'[at + 1] = Head(refs).container
      ]_vars

C15_Witness ==
    /\ element
    /\ last.op = "addEntry"
    /\ LET h == Len(accessor)
           at == IndexOf(children, h)
       IN /\ at > 0 /\ at < Len(children)
          /\ EntryOf(entries, h).alignment = RIGHT
          /\ EntryOf(entries, children[at + 1]).alignment = RIGHT
          /\ EntryOf(entries, children[at + 1]).priority > EntryOf(entries, h).priority
          /\ \E x \in Range(entries) : x.alignment = RIGHT /\ x.container \notin {h, children[at + 1]}


\* the containers of the alignment's registered entries, in the order they have
\* among the children of the status bar element
Rendered(alignment) ==
    SelectSeq(children, LAMBDA c : \E e \in Registered : e.container = c /\ e.alignment = alignment)

Containers(es) == [i \in DOMAIN es |-> es[i].container]

\* C16: once the container element exists, the LEFT containers stand in
\* getEntries(LEFT) order and the RIGHT containers in the reverse of
\* getEntries(RIGHT) order, equal priorities included.
C16_RenderedOrderAgrees ==
    element => /\ Rendered(LEFT) = Containers(getEntriesOf(entries, LEFT))
               /\ Rendered(RIGHT) = Containers(Reverse(getEntriesOf(entries, RIGHT)))


\* the positions in es of the entries whose id is not hidden
Shown(es) == { i \in DOMAIN es : es[i].id \notin HiddenIds }

\* C17: in each alignment group the first entry in getEntries order whose id is
\* not hidden, and no other registered entry of the group, carries
\* 'first-visible-item'; likewise the last one and 'last-visible-item'; no
\* entry of a group whose entries are all hidden carries a mark.
C17_FirstLastMarks ==
    \A alignment \in {LEFT, RIGHT} :
        LET es == getEntriesOf(entries, alignment)
        IN \A i \in DOMAIN es :
              /\ FIRST \in classes[es[i].container]
                    <=> (i \in Shown(es) /\ \A j \in Shown(es) : i <= j)
              /\ LAST \in classes[es[i].container]
                    <=> (i \in Shown(es) /\ \A j \in Shown(es) : j <= i)

\* a disposed entry was the last visible one of a group that still has a hidden
\* entry after the new last visible one
C17_Witness ==
    /\ last.op = "dispose"
    /\ \E h \in disposed : h \in Range(added) /\ h \notin RegisteredContainers /\ LAST \in classes[h]
    /\ LET es == getEntriesOf(entries, LEFT)
       IN /\ Len(es) >= 2
          /\ Shown(es) # {}
          /\ \E i \in DOMAIN es : i \notin Shown(es)


\* the click target is, or lies inside, the container of a registered entry
OverEntry(target) == target.kind \in {"container", "inner"} /\ target.of \in RegisteredContainers

\* C18: the context menu's action list starts with the hide action for the id of
\* the entry whose container is or encloses the click target, followed by a
\* separator, exactly when there is such an entry; it always ends with a
\* separator followed by the action that hides the whole status bar.
C18_MenuStartAndEnd ==
    \A target \in Targets :
        LET actions == getContextMenuActions(Part, target)
            n == Len(actions)
        IN /\ n >= 2
           /\ actions[n - 1] = Separator
           /\ actions[n] = ToggleStatusbarVisibilityAction
           /\ OverEntry(target)
                => /\ n >= 4
                   /\ actions[1] = HideStatusbarEntryAction(EntryOf(entries, target.of).id)
                   /\ actions[2] = Separator
           /\ ~OverEntry(target) => actions[1].type # "hideEntry"

\* entries with different ids are registered next to a container whose entry was
\* disposed, so that clicks inside, on and outside registered containers occur
C18_Witness ==
    /\ \E e1, e2 \in Registered : e1.id # e2.id
    /\ \E h \in disposed : h \in Range(added) /\ h \notin RegisteredContainers
    /\ \E target \in Targets : target.kind = "inner" /\ OverEntry(target)


\* C19: a toggle action that ran flipped whether its id is in the hidden set,
\* starting from the set as it was when the action ran; and the toggle actions of
\* a menu that just opened are checked exactly for the ids that are not hidden.
C19_ToggleFlipsMembership ==
    /\ last.op = "toggleEntry"
          => (last.id \in HiddenIds) # (last.id \in Range(last.pre[1].hidden))
    /\ last.op = "contextMenu"
          => \A i \in DOMAIN menu :
                menu[i].type = "toggleEntry" => (menu[i].checked <=> menu[i].id \notin HiddenIds)

\* a toggle action ran on an id that was hidden at that moment
C19_Witness ==
    /\ last.op = "toggleEntry"
    /\ last.id \in Range(last.pre[1].hidden)
    /\ last.id \notin HiddenIds
    /\ \E e \in Registered : e.id = last.id /\ display[e.container]


\* C20: dispose on the accessor of a realized entry takes exactly the entry of
\* that accessor's container out of the view-model, so that no alignment lists it
\* and findEntry on the container finds nothing, and keeps all other entries in
\* their order; when the accessor was disposed before, nothing changes.
C20_DisposeRemovesExactlyThatEntry ==
    [][ \A h \in DOMAIN accessor :
          (accessor[h] \in {"realized", "forwarding"} /\ AccessorDispose(h))
            => /\ entries' = SelectSeq(entries, LAMBDA e : e.container # h)
               /\ findEntry([entries |-> entries'], h) = <<>>
               /\ \A alignment \in {LEFT, RIGHT} :
                     h \notin Range(Containers(getEntriesOf(entries', alignment)))
               /\ h \in disposed
                     => UNCHANGED <<element, registry, pendingEntries, accessor, content,
                                    entries, hidden, display, classes, children, storage,
                                    notify, added, wanted, disposed, disposedEarly, menu,
                                    widgetVars, itemVars>>
      ]_vars

\* an entry was disposed while an entry added by another addEntry call, of the
\* same id and alignment, is still registered
C20_Witness ==
    /\ last.op = "dispose"
    /\ \E h \in disposed \ disposedEarly :
          /\ h \in Range(added)
          /\ h \notin RegisteredContainers
          /\ \E e \in Registered :
                /\ accessor[e.container] # "none"
                /\ e.id = "A"
                /\ \E x \in Registered : x.container # e.container /\ x.alignment = e.alignment


\* the line terminators of a message: every CR and every LF, a CR directly
\* followed by LF counting with its LF as one
Terminators(message) ==
    Cardinality({ i \in DOMAIN message : message[i] \in {CR, LF} })
    - Cardinality({ i \in DOMAIN message :
                        message[i] = CR /\ i < Len(message) /\ message[i + 1] = LF })

\* the lines the claim counts for a marker
CountedLines(m) ==
    Terminators(m.message) + 1
    + (IF m.relatedInformation > 0 THEN 1 + m.relatedInformation ELSE 0)

\* C11: the height showAtMarker and showStale compute is 3 + min(17, n) for the
\* n lines counted for the marker last given to the widget: 4 for a one-line
\* message without related information, 20 for a 20-line message, never above 20.
C11_HeightFromLineCount ==
    (wlast.op \in {"showAtMarker", "showStale"} /\ marker # <<>>)
        => /\ wlast.height = 3 + Min(17, CountedLines(marker[1]))
           /\ wlast.height <= 20
           /\ (Terminators(marker[1].message) = 0 /\ marker[1].relatedInformation = 0)
                 => wlast.height = 4
           /\ Terminators(marker[1].message) = 19 => wlast.height = 20

\* showStale computed the capped height after an update with a 14-line message
\* and three related entries
C11_Witness ==
    /\ wlast.op = "showStale"
    /\ marker # <<>>
    /\ Terminators(marker[1].message) = 13
    /\ marker[1].relatedInformation = 3
    /\ wlast.height = 20
    /\ zone # <<>> /\ zone[1] = 20

\* C14: every call of show(position, heightInLines) throws and leaves the message
\* content, the cached line count, the severity and the stale mark as they were.
C14_ShowAlwaysThrows ==
    [][ wlast'.op = "show"
          => /\ wlast'.threw
             /\ UNCHANGED <<messageBlock, relatedBlock, lines, longestLineLength,
                            severity, frameColor, stale, zone, position, revealed>>
      ]_vars

\* show was called on a stale widget that displays a marker
C14_Witness ==
    /\ wlast.op = "show"
    /\ stale
    /\ zone # <<>>
    /\ marker # <<>>
    /\ severity = Error


Notifications(run) ==
    Cardinality({ i \in DOMAIN events : events[i] = << run, "notification" >> })

\* C13: no error leaves executeCommand; a call whose command failed has shown
\* exactly one notification when it completes, a call whose command succeeded or
\* is still running has shown none; and the click listener stays attached for as
\* long as the rendered entry has a command and the item is not disposed.
C13_CommandFailureReported ==
    /\ \A run \in DOMAIN runs :
          /\ runs[run].state # "raised"
          /\ Notifications(run) =
                IF runs[run].state = "completed" /\ runs[run].failed THEN 1 ELSE 0
    /\ listener <=> (itemCommand /\ ~itemDisposed)

\* a command failed through its promise and one failed at once, and after both
\* notifications a further click started a command
C13_Witness ==
    /\ Len(runs) = 3
    /\ runs[1].failed /\ runs[2].failed
    /\ Notifications(1) = 1 /\ Notifications(2) = 1
    /\ ~runs[3].failed
    /\ listener
    /\ \E i, j, k \in DOMAIN events :
          /\ events[i] = << 1, "notification" >>
          /\ events[j] = << 2, "command" >>
          /\ j + 1 \in DOMAIN events
          /\ events[j + 1] = << 2, "notification" >>
          /\ events[k] = << 3, "command" >>
          /\ j < i /\ i < k


\* the positions in the log of the calls of one kind made by one executeCommand call
Calls(log, run, what) == { i \in DOMAIN log : log[i] = << run, what >> }

\* C21: every click focuses the active editor exactly when there is one, then
\* logs the telemetry event exactly once, then starts the command exactly once;
\* an error notification is shown only for a command that failed, and after the
\* command was started.
C21_ClickStepOrder ==
    [][ /\ \A activeTextEditorWidget \in BOOLEAN, outcome \in {"throws", "promise"} :
              Click(activeTextEditorWidget, outcome)
                  => (Calls(events', Len(runs'), "focus") # {} <=> activeTextEditorWidget)
        /\ \A run \in DOMAIN runs' :
              /\ Cardinality(Calls(events', run, "focus")) <= 1
              /\ Cardinality(Calls(events', run, "telemetry")) = 1
              /\ Cardinality(Calls(events', run, "command")) = 1
              /\ \A f \in Calls(events', run, "focus"), l \in Calls(events', run, "telemetry") :
                    f < l
              /\ \A l \in Calls(events', run, "telemetry"), c \in Calls(events', run, "command") :
                    l < c
              /\ \A n \in Calls(events', run, "notification") :
                    /\ runs'[run].failed
                    /\ \A c \in Calls(events', run, "command") : c < n
      ]_vars

\* a click with an active editor whose command failed only after a second click,
\* without an active editor, had started a command that succeeded
C21_Witness ==
    /\ Len(runs) >= 2
    /\ runs[1].failed
    /\ runs[2].state = "completed" /\ ~runs[2].failed
    /\ Calls(events, 1, "focus") # {}
    /\ Calls(events, 2, "focus") = {}
    /\ \E c \in Calls(events, 2, "command"), n \in Calls(events, 1, "notification") : c < n


\* p is not before the start and not after the end of the marker's range
Inside(m, p) ==
    /\ << m.startLineNumber, m.startColumn >> = << p.lineNumber, p.column >>
       \/ m.startLineNumber < p.lineNumber
       \/ (m.startLineNumber = p.lineNumber /\ m.startColumn < p.column)
    /\ << m.endLineNumber, m.endColumn >> = << p.lineNumber, p.column >>
       \/ p.lineNumber < m.endLineNumber
       \/ (p.lineNumber = m.endLineNumber /\ p.column < m.endColumn)

\* C22: showAtMarker shows the widget at the editor's position when the editor
\* has one and it lies inside the marker's range, and at the start of the range
\* otherwise; it reveals the position it shows the widget at.
C22_ShownAtEditorPositionOrRangeStart ==
    [][ wlast'.op = "showAtMarker"
          => LET m == marker'[1]
             IN \A editorPosition \in EditorPositions :
                   ShowAtMarker(m, editorPosition)
                     => /\ position' =
                             IF editorPosition # <<>> /\ Inside(m, editorPosition[1])
                             THEN editorPosition
                             ELSE << [lineNumber |-> m.startLineNumber,
                                      column |-> m.startColumn] >>
                        /\ revealed' = position'
      ]_vars

\* the widget is shown inside a range that spans two lines, at a position that is
\* neither its start nor its end
C22_Witness ==
    /\ wlast.op = "showAtMarker"
    /\ marker # <<>> /\ position # <<>>
    /\ marker[1].startLineNumber < marker[1].endLineNumber
    /\ position[1] # [lineNumber |-> marker[1].startLineNumber, column |-> marker[1].startColumn]
    /\ position[1] # [lineNumber |-> marker[1].endLineNumber, column |-> marker[1].endColumn]
    /\ revealed = position


\* C23: the widget is not stale when it is constructed, showStale makes it stale,
\* showAtMarker and updateMarker make it not stale and nothing else changes the
\* mark; showStale leaves the message content, the cached line count and longest
\* line length, and with them the required height, as they were.
C23_StaleIffShowStaleLast ==
    /\ [](wlast.op = "constructor" => ~stale)
    /\ [][ /\ wlast'.op = "showStale"
                => /\ stale'
                   /\ UNCHANGED <<messageBlock, relatedBlock, lines, longestLineLength>>
                   /\ wlast'.height = computeRequiredHeight(MessageWidget)
                   /\ computeRequiredHeight(MessageWidget)' = computeRequiredHeight(MessageWidget)
           /\ wlast'.op \in {"showAtMarker", "updateMarker"} => ~stale'
           /\ wlast'.op \notin {"showStale", "showAtMarker", "updateMarker"} => stale' = stale
         ]_vars

\* showStale ran on a shown widget whose marker was replaced by updateMarker
C23_Witness ==
    /\ wlast.op = "showStale"
    /\ stale
    /\ marker # <<>>
    /\ zone # <<>>
    /\ severity # marker[1].severity
    /\ lines > 17


\* the length of the longest stretch of a message without a line terminator
LongestStretch(message) ==
    LET stretches == { << i, j >> \in (DOMAIN message) \X (DOMAIN message) :
                          i <= j /\ \A k \in i..j : message[k] \notin {CR, LF} }
    IN IF stretches = {} THEN 0
       ELSE LET longest == CHOOSE s \in stretches :
                              \A s2 \in stretches : s2[2] - s2[1] <= s[2] - s[1]
            IN longest[2] - longest[1] + 1

\* C24: whatever markers the widget was given before, the cached line count and
\* the cached longest line length are those of the marker it was given last.
C24_CachesOfLastMarkerOnly ==
    marker # <<>>
        => /\ lines = CountedLines(marker[1])
           /\ longestLineLength = LongestStretch(marker[1].message)

\* the widget, shown at the capped height for an earlier marker, was given a
\* marker with an empty message
C24_Witness ==
    /\ wlast.op = "updateMarker"
    /\ zone # <<>> /\ zone[1] = 20
    /\ marker # <<>>
    /\ marker[1].message = <<>>
    /\ lines = 1
    /\ longestLineLength = 0


\* C25: showing the widget at a marker makes the marker's severity the current
\* one and paints the frame in the warning colour for Warning, the info colour
\* for Info and the error colour for every other severity; updating the marker
\* and marking the widget stale leave the current severity as it was.
C25_SeverityAndFrameColor ==
    [][ /\ wlast'.op = "showAtMarker"
             => /\ severity' = marker'[1].severity
                /\ frameColor' = CASE marker'[1].severity = Warning
                                          -> "editorMarkerNavigationWarning"
                                   [] marker'[1].severity = Info
                                          -> "editorMarkerNavigationInfo"
                                   [] OTHER -> "editorMarkerNavigationError"
        /\ wlast'.op \in {"updateMarker", "showStale"} => severity' = severity
      ]_vars

\* the widget was shown at a hint, which paints the error colour, and was then
\* given an info marker by updateMarker
C25_Witness ==
    /\ wlast.op = "updateMarker"
    /\ marker # <<>>
    /\ marker[1].severity = Info
    /\ severity = Hint
    /\ frameColor = "editorMarkerNavigationError"


\* the persisted value stands for the hidden set: absent or an empty list when
\* nothing is hidden, otherwise a list with the members of the hidden set
PersistedIsHidden ==
    IF HiddenIds = {}
    THEN storage.kind = "absent" \/ (storage.kind = "json" /\ Range(storage.list) = {})
    ELSE storage.kind = "json" /\ Range(storage.list) = HiddenIds

\* C26 as stated: once every external write has been notified, the persisted
\* value decodes to exactly the in-memory hidden set.
C26_PersistedDecodesToHidden_Original == ~notify => PersistedIsHidden

\* C26: once every external write has been notified, the persisted value
\* decodes to exactly the in-memory hidden set, unless it is not valid JSON:
\* then nothing is hidden and the value stays as it is.
C26_PersistedDecodesToHidden ==
    ~notify => \/ PersistedIsHidden
               \/ storage.kind = "malformed" /\ HiddenIds = {}

\* a notified external write of a value that is not valid JSON emptied a hidden
\* set that was not empty
C26_Witness ==
    /\ HandledStorageChange
    /\ ~notify
    /\ storage.kind = "malformed"
    /\ last.pre # NoSnapshot
    /\ last.pre[1].hidden # <<>>
    /\ HiddenIds = {}


\* C27: hide of an id that is already hidden and show of an id that is not hidden
\* change neither the hidden set nor the visibility of any entry, and make no
\* store or remove call on the storage.
C27_RedundantHideShowNoOp ==
    [][ (\/ last'.op = "hide" /\ last'.id \in Range(hidden) /\ Hide(last'.id)
         \/ last'.op = "show" /\ last'.id \notin Range(hidden) /\ Show(last'.id))
          => /\ UNCHANGED <<hidden, display, classes, storage>>
             /\ last'.storageCalls = <<>>
             /\ last'.domCalls = {}
      ]_vars

\* show was called for the id of a registered entry that is not hidden, while
\* another id is hidden
C27_Witness ==
    /\ last.op = "show"
    /\ last.storageCalls = <<>>
    /\ last.id \notin HiddenIds
    /\ \E e \in Registered : e.id = last.id
    /\ HiddenIds # {}


\* C28: adding an entry, materializing the initial entries and disposing an entry
\* leave the hidden set and the persisted value as they were and make no call on
\* the storage; an entry added under a hidden id starts out hidden.
C28_AddDisposeKeepHidden ==
    [][ last'.op \in {"addEntry", "createContentArea", "dispose"}
          => /\ UNCHANGED <<hidden, storage>>
             /\ last'.storageCalls = <<>>
             /\ \A e \in Range(entries') \ Range(entries) :
                   e.id \in Range(hidden) => ~display'[e.container]
      ]_vars

\* after a realized entry of the hidden id was disposed, an entry of that id was
\* added again and is hidden
C28_Witness ==
    /\ last.op = "addEntry"
    /\ element
    /\ disposed \ disposedEarly # {}
    /\ hidden = << "A" >>
    /\ storage = JsonList(<< "A" >>)
    /\ \E e \in Registered :
          /\ e.container \in DOMAIN accessor
          /\ e.container \notin disposed
          /\ \E h \in disposed \ disposedEarly : h < e.container
          /\ e.id = "A"
          /\ ~display[e.container]


\* C29: a storage-change notification for another key, or for a scope other than
\* the global one, leaves the hidden set and every entry's visibility as they
\* were.
C29_OtherNotificationsIgnored ==
    (/\ last.op = "storageChange"
     /\ last.id # HIDDEN_ENTRIES_KEY \/ last.scope # GLOBAL)
        => /\ hidden = last.pre[1].hidden
           /\ display = last.pre[1].display
           /\ last.domCalls = {}

\* a notification for the hidden-entries key in the workspace scope arrived while
\* the stored value differs from the hidden set on the id of a registered entry
C29_Witness ==
    /\ last.op = "storageChange"
    /\ last.id = HIDDEN_ENTRIES_KEY
    /\ last.scope = WORKSPACE
    /\ notify
    /\ \E e \in Registered : (e.id \in Decode(storage)) # (e.id \in HiddenIds)


\* the view-model entry a queued entry is materialized as
Materialized(pending) ==
    [id |-> pending.id, name |-> pending.name, alignment |-> pending.alignment,
     priority |-> pending.priority, container |-> pending.handle]

\* C30: createContentArea empties the pending queue and adds to the view-model,
\* after the registry items, each entry still queued exactly once and in queue
\* order; once the element exists the queue stays empty and every addEntry adds
\* its entry to the view-model at once.
C30_PendingMaterializedInOrder ==
    /\ [](element => pendingEntries = <<>>)
    /\ [][ /\ (~element /\ element')
               => /\ pendingEntries' = <<>>
                  /\ added' = [i \in 1..Len(registry) |-> Len(accessor) + i]
                                \o [i \in DOMAIN pendingEntries |-> pendingEntries[i].handle]
                  /\ Len(entries') = Len(registry) + Len(pendingEntries)
                  /\ \A i \in DOMAIN pendingEntries :
                        Cardinality({ k \in DOMAIN entries' :
                                         entries'[k] = Materialized(pendingEntries[i]) }) = 1
                  /\ \A i \in DOMAIN pendingEntries :
                        /\ accessor'[pendingEntries[i].handle] = "forwarding"
                        /\ content'[pendingEntries[i].handle] = pendingEntries[i].entry
           /\ (element /\ last'.op = "addEntry")
               => /\ pendingEntries' = <<>>
                  /\ Len(accessor') = Len(accessor) + 1
                  /\ accessor'[Len(accessor')] = "realized"
                  /\ Len(entries') = Len(entries) + 1
                  /\ \E k \in DOMAIN entries' : entries'[k].container = Len(accessor')
                  /\ added' = Append(added, Len(accessor'))
         ]_vars

\* createContentArea has just materialized two queued entries after one registry
\* item
C30_Witness ==
    /\ last.op = "createContentArea"
    /\ element
    /\ registry # <<>>
    /\ pendingEntries = <<>>
    /\ Len(added) = 3
    /\ \E g, h \in RegisteredContainers :
          /\ g # h
          /\ accessor[g] = "forwarding"
          /\ accessor[h] = "forwarding"

====
